---- MODULE Spec2Model ----
(***************************************************************************)
(* The subscription-gated usage-accounting pipeline of the Express API:    *)
(* the auth middleware (authenticateToken, requirePlan,                    *)
(* checkSubscriptionLimits, incrementUsage), the routes that chain it in   *)
(* front of the generation handlers, the Database helpers over the three   *)
(* tables users / subscriptions / usage_tracking, and the Stripe webhook.  *)
(*                                                                         *)
(* The server is constructed against a persistent store, so Init draws the *)
(* rows present at start from Seeds: what registration, the gate and the   *)
(* billing provider leave behind (one entitlement per user, a limit that   *)
(* is the plan's table limit).                                             *)
(***************************************************************************)
EXTENDS Integers, Sequences, FiniteSets, TLC

\* ---------------------------------------------------------------- bounds
\* request slots that can be in flight at once
MaxReqs == 2
\* calendar months the clock can show
MaxMonth == 2
\* requests the clients send in one run
MaxStarts == 2
\* registration requests in flight at once
MaxRegs == 2

\* ---------------------------------------------------------------- constants
FreeLimit == 5
BasicLimit == 50
Unlimited == -1

Users == {"u1", "u2"}
SeedUsers == {"u1"}
RegIds == 1..MaxRegs
ReqIds == 1..MaxReqs
Months == 1..MaxMonth

Null == "null"
Plans == {"free", "basic", "pro", "pro_yearly"}

Email(u) == IF u = "u1" THEN "u1@mail" ELSE "u2@mail"
CustomerOf(u) == IF u = "u1" THEN "cus_u1" ELSE "cus_u2"
SubIdOf(u) == IF u = "u1" THEN "sub_u1" ELSE "sub_u2"
Customers == {CustomerOf(u) : u \in Users}
SubIds == {SubIdOf(u) : u \in Users} \cup {"sub_x"}

\* SUBSCRIPTION_PLANS: id -> stripePriceId
StripePriceId(plan) ==
  CASE plan = "free" -> ""
    [] plan = "basic" -> "price_basic_monthly"
    [] plan = "pro" -> "price_pro_monthly"
    [] plan = "pro_yearly" -> "price_pro_yearly"

\* StripeService.getPlanByPriceId: the plan id, or Null when no plan has the price
getPlanByPriceId(priceId) ==
  IF \E p \in Plans : StripePriceId(p) = priceId
  THEN CHOOSE p \in Plans : StripePriceId(p) = priceId
  ELSE Null

\* Database.getRequestLimitForPlan: limits[plan] || 5
getRequestLimitForPlan(plan) ==
  CASE plan = "free" -> FreeLimit
    [] plan = "basic" -> BasicLimit
    [] plan = "pro" -> Unlimited
    [] plan = "pro_yearly" -> Unlimited
    [] OTHER -> FreeLimit

\* ---------------------------------------------------------------- routes
Routes == {"recipes/generate", "recipes/substitutions", "meal-plans/generate",
           "nutrition/analyze", "chat/message", "images/analyze"}

Pipeline_incrementFirst(route) ==
  CASE route = "recipes/generate" ->
         <<"authenticateToken", "checkSubscriptionLimits", "incrementUsage",
           "validateRequest", "handler">>
    [] route = "recipes/substitutions" ->
         <<"authenticateToken", "requirePlan", "checkSubscriptionLimits",
           "incrementUsage", "validateRequest", "handler">>
    [] route = "meal-plans/generate" ->
         <<"authenticateToken", "checkSubscriptionLimits", "incrementUsage",
           "validateRequest", "handler">>
    [] route = "images/analyze" ->
         <<"authenticateToken", "requirePlan", "checkSubscriptionLimits",
           "upload", "handler">>
    [] route = "nutrition/analyze" -> <<"validateRequest", "handler">>
    [] route = "chat/message" -> <<"validateRequest", "handler">>

\* the middleware chain each router.post registers, in order
Pipeline(route) ==
  CASE route = "recipes/generate" ->
         <<"authenticateToken", "checkSubscriptionLimits", "validateRequest",
           "incrementUsage", "handler">>
    [] route = "recipes/substitutions" ->
         <<"authenticateToken", "requirePlan", "checkSubscriptionLimits",
           "validateRequest", "incrementUsage", "handler">>
    [] route = "meal-plans/generate" ->
         <<"authenticateToken", "checkSubscriptionLimits", "validateRequest",
           "incrementUsage", "handler">>
    [] route = "images/analyze" ->
         <<"authenticateToken", "requirePlan", "checkSubscriptionLimits",
           "upload", "handler">>
    [] route = "nutrition/analyze" -> <<"validateRequest", "handler">>
    [] route = "chat/message" -> <<"validateRequest", "handler">>

\* the argument of requirePlan(...) on the plan-gated routes
RequiredPlans(route) ==
  CASE route = "recipes/substitutions" -> {"basic", "pro", "pro_yearly"}
    [] route = "images/analyze" -> {"pro", "pro_yearly"}
    [] OTHER -> Plans

\* ---------------------------------------------------------------- state
VARIABLES
  users,           \* table users: rows [id, email, stripe_customer_id]
  subscriptions,   \* table subscriptions: rows [user_id, plan, status, stripe_subscription_id, period]
  usage_tracking,  \* table usage_tracking: rows [user_id, month, requests_used, request_limit]
  month,           \* the calendar month Database.getCurrentMonth() reads
  heldToken,       \* per user, the payload of the token the client has held since its first login
  reqs,            \* the requests in flight, one per slot
  hookResp,        \* the webhook response being sent: HTTP status (0: none) and whether
                   \* the notification's signature had verified
  started,         \* requests sent so far
  regs             \* the registrations in flight, one per slot

vars == <<users, subscriptions, usage_tracking, month, heldToken, reqs, hookResp, started, regs>>

\* req.user / a token payload: id and the subscription object
NoUser == [id |-> "none", plan |-> "none", status |-> "none",
           requestsUsed |-> 0, requestLimit |-> 0]

NoResp == [status |-> 0, code |-> "", by |-> ""]
NoHook == [status |-> 0, verified |-> FALSE]
Resp(status, code, by) == [status |-> status, code |-> code, by |-> by]

Idle == [route |-> "none", pos |-> 0, cred |-> "none", token |-> NoUser,
         user |-> NoUser, seen |-> NoUser, resp |-> NoResp,
         incr |-> "none", dispatched |-> FALSE, creating |-> 0]

\* a registration slot: the person whose email the body carries, the id of the
\* user row created for it and the HTTP status answered (0: none yet)
NoReg == [stage |-> "idle", who |-> "none", id |-> "none", status |-> 0]

Running(r) == reqs[r].route # "none" /\ reqs[r].resp = NoResp
Cur(r) == IF Running(r) THEN Pipeline(reqs[r].route)[reqs[r].pos] ELSE "none"

\* middleware that never awaits: once entered it runs on to the next await or to
\* the response before the event loop serves anything else
SyncStages == {"requirePlan", "checkSubscriptionLimits", "validateRequest"}
Responded(r) == reqs[r].resp # NoResp
EventLoopFree ==
  /\ \A q \in ReqIds : Cur(q) \notin SyncStages /\ ~Responded(q)
  /\ hookResp = NoHook

\* ---------------------------------------------------------------- Database
\* .single(): exactly one matching row
HasSingle(rows) == Cardinality(rows) = 1
TheRow(rows) == CHOOSE x \in rows : TRUE

UserRows(u) == {x \in users : x.id = u}
UsersByCustomer(e) == {x \in users : x.email = e \/ x.stripe_customer_id = e}
UsersByEmail(e) == {x \in users : x.email = e}
SubRows(u) == {s \in subscriptions : s.user_id = u}
SubRowsByStripeId(sid) == {s \in subscriptions : s.stripe_subscription_id = sid}
UsageRows(u, m) == {t \in usage_tracking : t.user_id = u /\ t.month = m}

\* Database.getCurrentMonth
getCurrentMonth == month

PlanOrFree_required(u) == IF HasSingle(SubRows(u)) THEN TheRow(SubRows(u)).plan ELSE "none"

\* subscription?.plan || 'free' and subscription?.status || 'active' over
\* Database.getSubscriptionByUserId (null when .single() finds no single row)
PlanOrFree(u) == IF HasSingle(SubRows(u)) THEN TheRow(SubRows(u)).plan ELSE "free"
StatusOrActive(u) == IF HasSingle(SubRows(u)) THEN TheRow(SubRows(u)).status ELSE "active"

NewUsageRow_freeLimit(u, m) ==
  [user_id |-> u, month |-> m, requests_used |-> 0,
   request_limit |-> getRequestLimitForPlan("free")]

NewUsageRow(u, m) ==
  [user_id |-> u, month |-> m, requests_used |-> 0,
   request_limit |-> getRequestLimitForPlan(PlanOrFree(u))]

\* Database.getOrCreateUsageTracking: the row it returns
getOrCreateUsageTracking(u, m) ==
  IF UsageRows(u, m) # {} THEN TheRow(UsageRows(u, m)) ELSE NewUsageRow(u, m)

\* Database.getOrCreateUsageTracking: the table after it
UsageAfterGetOrCreate(u, m) ==
  IF UsageRows(u, m) # {} THEN usage_tracking
  ELSE usage_tracking \cup {NewUsageRow(u, m)}

\* the update of Database.incrementUsage: requests_used + 1
\* a hard quota: the update refuses to go past the limit
IncrementedRow_capped(t) ==
  [t EXCEPT !.requests_used =
     IF t.request_limit # -1 /\ @ >= t.request_limit THEN @ ELSE @ + 1]

IncrementedRow_byTwo(t) == [t EXCEPT !.requests_used = @ + 2]

IncrementedRow(t) == [t EXCEPT !.requests_used = t.requests_used + 1]

\* Database.incrementUsage: the update matched a single row
IncrementMatches(u, m) == HasSingle(UsageRows(u, m))

\* Database.incrementUsage: the table after a successful update
UsageAfterIncrement(u, m) ==
  (usage_tracking \ UsageRows(u, m)) \cup {IncrementedRow(TheRow(UsageRows(u, m)))}

UsageAfterReset_resetsLimit(u, m) ==
  {IF t.user_id = u /\ t.month = m
   THEN [t EXCEPT !.requests_used = 0, !.request_limit = getRequestLimitForPlan("free")]
   ELSE t : t \in usage_tracking}

\* Database.resetMonthlyUsage: the table after a successful update
UsageAfterReset(u, m) ==
  (usage_tracking \ UsageRows(u, m))
    \cup {[TheRow(UsageRows(u, m)) EXCEPT !.requests_used = 0]}

\* ---------------------------------------------------------------- middleware
Credentials == {"missing", "malformed", "badsig", "expired", "valid"}

\* jwt.verify(token, JWT_SECRET) returns the payload (does not throw)
jwtVerifies(cred) == cred = "valid"

\* the entitlement and usage the store holds for a user right now
StoredState(u) ==
  [id |-> u, plan |-> PlanOrFree(u), status |-> StatusOrActive(u),
   requestsUsed |-> getOrCreateUsageTracking(u, getCurrentMonth).requests_used,
   requestLimit |-> getOrCreateUsageTracking(u, getCurrentMonth).request_limit]

ResolveIdentity_fromToken(u, decoded) == decoded

\* authenticateToken: req.user, built from the rows read for decoded.id
ResolveIdentity(u, decoded) ==
  [id |-> u, plan |-> PlanOrFree(u), status |-> StatusOrActive(u),
   requestsUsed |-> getOrCreateUsageTracking(u, getCurrentMonth).requests_used,
   requestLimit |-> getOrCreateUsageTracking(u, getCurrentMonth).request_limit]

RespNoToken == Resp(401, "Access token required", "authenticateToken")
RespBadToken == Resp(403, "Invalid or expired token", "authenticateToken")
RespSubscriptionRequired == Resp(403, "SUBSCRIPTION_REQUIRED", "checkSubscriptionLimits")
RespLimitExceeded == Resp(429, "LIMIT_EXCEEDED", "checkSubscriptionLimits")
RespPlanUpgrade == Resp(403, "PLAN_UPGRADE_REQUIRED", "requirePlan")
RespValidation == Resp(400, "Validation error", "validateRequest")

authFailure_acceptsExpired(cred) ==
  IF cred = "missing" THEN RespNoToken
  ELSE IF cred = "expired" THEN NoResp
  ELSE RespBadToken

\* authenticateToken: the rejection for a credential, NoResp when it verifies
authFailure(cred) ==
  IF cred = "missing" THEN RespNoToken
  ELSE IF ~jwtVerifies(cred) THEN RespBadToken
  ELSE NoResp

checkSubscriptionLimitsResult_noFreeExemption(subscription) ==
  IF subscription.status # "active" THEN RespSubscriptionRequired
  ELSE IF subscription.requestLimit # -1
          /\ subscription.requestsUsed >= subscription.requestLimit
       THEN RespLimitExceeded
  ELSE NoResp

checkSubscriptionLimitsResult_quotaFirst(subscription) ==
  IF subscription.requestLimit # -1
     /\ subscription.requestsUsed >= subscription.requestLimit
  THEN RespLimitExceeded
  ELSE IF subscription.status # "active" /\ subscription.plan # "free"
       THEN RespSubscriptionRequired
  ELSE NoResp

checkSubscriptionLimitsResult_strictlyOver(subscription) ==
  IF subscription.status # "active" /\ subscription.plan # "free"
  THEN RespSubscriptionRequired
  ELSE IF subscription.requestLimit # -1
          /\ subscription.requestsUsed > subscription.requestLimit
       THEN RespLimitExceeded
  ELSE NoResp

\* checkSubscriptionLimits: the rejection, NoResp when it calls next()
checkSubscriptionLimitsResult(subscription) ==
  IF subscription.status # "active" /\ subscription.plan # "free"
  THEN RespSubscriptionRequired
  ELSE IF subscription.requestLimit # -1
          /\ subscription.requestsUsed >= subscription.requestLimit
       THEN RespLimitExceeded
  ELSE NoResp

requirePlanResult_allowsAll(requiredPlans, subscription) == NoResp

\* requirePlan(requiredPlans): the rejection, NoResp when it calls next()
requirePlanResult(requiredPlans, subscription) ==
  IF subscription.plan \notin requiredPlans THEN RespPlanUpgrade ELSE NoResp

\* incrementUsage: user && user.subscription.requestLimit !== -1
shouldIncrement(user) == user.id # "none" /\ user.requestLimit # -1

onIncrementError_fails(q) ==
  [q EXCEPT !.incr = "error", !.resp = Resp(500, "Internal server error", "incrementUsage")]

\* incrementUsage: catch (error) { logger.error(...); next(); }
onIncrementError(q) == [q EXCEPT !.incr = "error", !.pos = q.pos + 1]

\* ---------------------------------------------------------------- requests
\* a client sends a request to a route
Arrive(r, route) ==
  /\ EventLoopFree
  /\ reqs[r] = Idle
  /\ \A q \in ReqIds : q < r => reqs[q] # Idle
  /\ reqs' = [reqs EXCEPT ![r] = [Idle EXCEPT !.route = route, !.pos = 1]]
  /\ UNCHANGED <<users, subscriptions, usage_tracking, month, heldToken, hookResp, regs>>

StartRequest(r, route) ==
  /\ started < MaxStarts
  /\ started' = started + 1
  /\ Arrive(r, route)

\* authenticateToken with the credential the request carries; a valid credential
\* is the token user u has held since it was signed. It reads the user, the
\* subscription and the month's usage row; when the row is missing the request
\* goes on to insert it (creating: the month it computed)
AuthenticateToken(r, cred, u) ==
  /\ EventLoopFree
  /\ Cur(r) = "authenticateToken"
  /\ reqs[r].creating = 0
  /\ cred = "valid" => heldToken[u].id = u /\ HasSingle(UserRows(u))
  /\ IF authFailure(cred) # NoResp
     THEN reqs' = [reqs EXCEPT ![r].cred = cred, ![r].resp = authFailure(cred)]
     ELSE reqs' = [reqs EXCEPT ![r].cred = cred,
                               ![r].token = heldToken[u],
                               ![r].seen = StoredState(u),
                               ![r].user = ResolveIdentity(u, heldToken[u]),
                               ![r].creating =
                                 IF UsageRows(u, getCurrentMonth) = {}
                                 THEN getCurrentMonth ELSE 0,
                               ![r].pos =
                                 IF UsageRows(u, getCurrentMonth) = {} THEN @ ELSE @ + 1]
  /\ UNCHANGED <<users, subscriptions, usage_tracking, month, heldToken, hookResp, started, regs>>

\* a request whose authenticateToken found no usage row and is about to insert one
Creating(r) == Cur(r) = "authenticateToken" /\ reqs[r].creating # 0

\* getOrCreateUsageTracking, second half: the insert of the missing row with the
\* limit of the plan stored now. UNIQUE(user_id, month) refuses it when the row
\* has appeared meanwhile; the error reaches authenticateToken's catch
InsertUsageRow(r) ==
  /\ EventLoopFree
  /\ Creating(r)
  /\ LET q == reqs[r]
         u == reqs[r].seen.id
         row == NewUsageRow(u, reqs[r].creating)
     IN IF UsageRows(u, q.creating) # {}
        THEN /\ reqs' = [reqs EXCEPT ![r].resp = RespBadToken, ![r].user = NoUser,
                                     ![r].creating = 0]
             /\ UNCHANGED usage_tracking
        ELSE /\ usage_tracking' = usage_tracking \cup {row}
             /\ reqs' = [reqs EXCEPT
                  ![r].seen = [q.seen EXCEPT !.requestsUsed = row.requests_used,
                                             !.requestLimit = row.request_limit],
                  ![r].user = [q.user EXCEPT !.requestsUsed = row.requests_used,
                                             !.requestLimit = row.request_limit],
                  ![r].creating = 0,
                  ![r].pos = @ + 1]
  /\ UNCHANGED <<users, subscriptions, month, heldToken, hookResp, started, regs>>

RequirePlan(r) ==
  /\ Cur(r) = "requirePlan"
  /\ LET res == requirePlanResult(RequiredPlans(reqs[r].route), reqs[r].user)
     IN reqs' = IF res # NoResp THEN [reqs EXCEPT ![r].resp = res]
                ELSE [reqs EXCEPT ![r].pos = @ + 1]
  /\ UNCHANGED <<users, subscriptions, usage_tracking, month, heldToken, hookResp, started, regs>>

CheckSubscriptionLimits(r) ==
  /\ Cur(r) = "checkSubscriptionLimits"
  /\ LET res == checkSubscriptionLimitsResult(reqs[r].user)
     IN reqs' = IF res # NoResp THEN [reqs EXCEPT ![r].resp = res]
                ELSE [reqs EXCEPT ![r].pos = @ + 1]
  /\ UNCHANGED <<users, subscriptions, usage_tracking, month, heldToken, hookResp, started, regs>>

\* validateRequest(schema): the body passes the schema or not
ValidateRequest(r, bodyOk) ==
  /\ Cur(r) = "validateRequest"
  /\ reqs' = IF bodyOk THEN [reqs EXCEPT ![r].pos = @ + 1]
             ELSE [reqs EXCEPT ![r].resp = RespValidation]
  /\ UNCHANGED <<users, subscriptions, usage_tracking, month, heldToken, hookResp, started, regs>>

\* upload.single('image'): multer accepts the upload or passes an error on
Upload(r, fileOk) ==
  /\ EventLoopFree
  /\ Cur(r) = "upload"
  /\ reqs' = IF fileOk THEN [reqs EXCEPT ![r].pos = @ + 1]
             ELSE [reqs EXCEPT ![r].resp = Resp(500, "Internal server error", "errorHandler")]
  /\ UNCHANGED <<users, subscriptions, usage_tracking, month, heldToken, hookResp, started, regs>>

\* incrementUsage; db is whether the store answers the update or errors
IncrementUsage(r, db) ==
  /\ EventLoopFree
  /\ Cur(r) = "incrementUsage"
  /\ LET q == reqs[r] IN
     IF ~shouldIncrement(q.user)
     THEN /\ reqs' = [reqs EXCEPT ![r].incr = "skipped", ![r].pos = @ + 1]
          /\ UNCHANGED usage_tracking
     ELSE IF db = "ok" /\ IncrementMatches(q.user.id, getCurrentMonth)
     THEN /\ usage_tracking' = UsageAfterIncrement(q.user.id, getCurrentMonth)
          /\ reqs' = [reqs EXCEPT ![r].incr = "ok", ![r].pos = @ + 1]
     ELSE /\ reqs' = [reqs EXCEPT ![r] = onIncrementError(q)]
          /\ UNCHANGED usage_tracking
  /\ UNCHANGED <<users, subscriptions, month, heldToken, hookResp, started, regs>>

HandlerOutcomes(route) ==
  IF route = "images/analyze" THEN {"ok", "nofile"} ELSE {"ok", "error"}

\* the route's async (req, res) handler: the generation call answers or fails
Handler(r, outcome) ==
  /\ EventLoopFree
  /\ Cur(r) = "handler"
  /\ outcome \in HandlerOutcomes(reqs[r].route)
  /\ reqs' = [reqs EXCEPT ![r].dispatched = TRUE,
                          ![r].resp = CASE outcome = "ok" -> Resp(200, "", "handler")
                                        [] outcome = "nofile" -> Resp(400, "No image file provided", "handler")
                                        [] outcome = "error" -> Resp(500, "", "handler")]
  /\ UNCHANGED <<users, subscriptions, usage_tracking, month, heldToken, hookResp, started, regs>>

\* res.json(...) has written the response: the request is over
Deliver(r) ==
  /\ Responded(r)
  /\ reqs' = [reqs EXCEPT ![r] = Idle]
  /\ UNCHANGED <<users, subscriptions, usage_tracking, month, heldToken, hookResp, started, regs>>

\* ---------------------------------------------------------------- auth routes
\* POST /auth/register for a new email
Register(u) ==
  /\ EventLoopFree
  /\ UsersByEmail(Email(u)) = {}
  /\ users' = users \cup {[id |-> u, email |-> Email(u), stripe_customer_id |-> Null]}
  /\ subscriptions' = subscriptions \cup
       {[user_id |-> u, plan |-> "free", status |-> "active",
         stripe_subscription_id |-> Null, period |-> Null]}
  /\ usage_tracking' =
       IF UsageRows(u, getCurrentMonth) # {} THEN usage_tracking
       ELSE usage_tracking \cup
              {[user_id |-> u, month |-> getCurrentMonth, requests_used |-> 0,
                request_limit |-> getRequestLimitForPlan("free")]}
  /\ heldToken' = [heldToken EXCEPT ![u] =
       [id |-> u, plan |-> "free", status |-> "active", requestsUsed |-> 0,
        requestLimit |-> getRequestLimitForPlan("free")]]
  /\ UNCHANGED <<month, reqs, hookResp, started, regs>>

\* POST /auth/login with the right password
Login(u) ==
  /\ EventLoopFree
  /\ HasSingle(UsersByEmail(Email(u)))
  /\ usage_tracking' = UsageAfterGetOrCreate(u, getCurrentMonth)
  /\ heldToken' = IF heldToken[u].id = u THEN heldToken
                  ELSE [heldToken EXCEPT ![u] = StoredState(u)]
  /\ UNCHANGED <<users, subscriptions, month, reqs, hookResp, started, regs>>

\* ---------------------------------------------------------------- register, step by step
\* users.id DEFAULT gen_random_uuid(): the id of a new row, the person's own
\* unless a row already carries it
FreshId(u) == IF UserRows(u) = {} THEN u ELSE "uuid"

UniqueEmailViolated_never(u) == FALSE

\* users.email UNIQUE: the insert of a second row with the email is refused
UniqueEmailViolated(u) == UsersByEmail(Email(u)) # {}

\* POST /auth/register up to its first await: Database.getUserByEmail
RegisterLookup(k, u) ==
  /\ EventLoopFree
  /\ regs[k] = NoReg
  /\ regs' = [regs EXCEPT ![k] =
       IF UsersByEmail(Email(u)) # {}
       THEN [NoReg EXCEPT !.stage = "done", !.who = u, !.status = 400]
       ELSE [NoReg EXCEPT !.stage = "createUser", !.who = u]]
  /\ UNCHANGED <<users, subscriptions, usage_tracking, month, heldToken, reqs, hookResp, started>>

\* bcrypt.hash, then Database.createUser; its error reaches the catch: 500
RegisterCreateUser(k) ==
  /\ EventLoopFree
  /\ regs[k].stage = "createUser"
  /\ LET u == regs[k].who IN
     IF UniqueEmailViolated(u)
     THEN /\ regs' = [regs EXCEPT ![k].stage = "done", ![k].status = 500]
          /\ UNCHANGED users
     ELSE /\ users' = users \cup
               {[id |-> FreshId(u), email |-> Email(u), stripe_customer_id |-> Null]}
          /\ regs' = [regs EXCEPT ![k].stage = "createSubscription", ![k].id = FreshId(u)]
  /\ UNCHANGED <<subscriptions, usage_tracking, month, heldToken, reqs, hookResp, started>>

\* Database.createSubscription({user_id, plan: 'free', status: 'active'}); db is
\* whether the store answers the insert or errors
RegisterCreateSubscription(k, db) ==
  /\ EventLoopFree
  /\ regs[k].stage = "createSubscription"
  /\ IF db = "ok"
     THEN /\ subscriptions' = subscriptions \cup
               {[user_id |-> regs[k].id, plan |-> "free", status |-> "active",
                 stripe_subscription_id |-> Null, period |-> Null]}
          /\ regs' = [regs EXCEPT ![k].stage = "usage"]
     ELSE /\ regs' = [regs EXCEPT ![k].stage = "done", ![k].status = 500]
          /\ UNCHANGED subscriptions
  /\ UNCHANGED <<users, usage_tracking, month, heldToken, reqs, hookResp, started>>

\* Database.getOrCreateUsageTracking, jwt.sign and the 201
RegisterUsage(k) ==
  /\ EventLoopFree
  /\ regs[k].stage = "usage"
  /\ usage_tracking' = UsageAfterGetOrCreate(regs[k].id, getCurrentMonth)
  /\ heldToken' = [heldToken EXCEPT ![regs[k].id] =
       [id |-> regs[k].id, plan |-> "free", status |-> "active", requestsUsed |-> 0,
        requestLimit |-> getRequestLimitForPlan("free")]]
  /\ regs' = [regs EXCEPT ![k].stage = "done", ![k].status = 201]
  /\ UNCHANGED <<users, subscriptions, month, reqs, hookResp, started>>

\* the registration's response has been written: the request is over
RegisterDeliver(k) ==
  /\ regs[k].stage = "done"
  /\ regs' = [regs EXCEPT ![k] = NoReg]
  /\ UNCHANGED <<users, subscriptions, usage_tracking, month, heldToken, reqs, hookResp, started>>

\* ---------------------------------------------------------------- subscription routes
PlanIds == Plans \cup {"unknown"}

\* the users table after create-checkout-session: a customer is created and
\* stored for a paid plan when the user has none yet
UsersAfterCheckout(u, planId) ==
  IF planId \notin Plans \ {"free"} THEN users
  ELSE IF TheRow(UserRows(u)).stripe_customer_id # Null THEN users
  ELSE (users \ UserRows(u)) \cup
         {[TheRow(UserRows(u)) EXCEPT !.stripe_customer_id = CustomerOf(u)]}

CreateCheckoutSession_upgrades(u, planId) ==
  /\ EventLoopFree
  /\ heldToken[u].id = u /\ HasSingle(UserRows(u))
  /\ usage_tracking' = UsageAfterGetOrCreate(u, getCurrentMonth)
  /\ users' = UsersAfterCheckout(u, planId)
  /\ subscriptions' =
       IF planId \in Plans \ {"free"}
       THEN {IF t.user_id = u THEN [t EXCEPT !.plan = planId] ELSE t : t \in subscriptions}
       ELSE subscriptions
  /\ UNCHANGED <<month, heldToken, reqs, hookResp, started, regs>>

\* POST /subscriptions/create-checkout-session behind authenticateToken
CreateCheckoutSession(u, planId) ==
  /\ EventLoopFree
  /\ heldToken[u].id = u /\ HasSingle(UserRows(u))
  /\ usage_tracking' = UsageAfterGetOrCreate(u, getCurrentMonth)
  /\ users' = UsersAfterCheckout(u, planId)
  /\ UNCHANGED <<subscriptions, month, heldToken, reqs, hookResp, started, regs>>

\* POST /subscriptions/create-portal-session behind authenticateToken
CreatePortalSession(u) ==
  /\ EventLoopFree
  /\ heldToken[u].id = u /\ HasSingle(UserRows(u))
  /\ usage_tracking' = UsageAfterGetOrCreate(u, getCurrentMonth)
  /\ UNCHANGED <<users, subscriptions, month, heldToken, reqs, hookResp, started, regs>>

\* GET /subscriptions/status behind authenticateToken
GetStatus(u) ==
  /\ EventLoopFree
  /\ heldToken[u].id = u /\ HasSingle(UserRows(u))
  /\ usage_tracking' = UsageAfterGetOrCreate(u, getCurrentMonth)
  /\ UNCHANGED <<users, subscriptions, month, heldToken, reqs, hookResp, started, regs>>

\* the calendar moves on to the next month
AdvanceMonth ==
  /\ EventLoopFree
  /\ month < MaxMonth
  /\ month' = month + 1
  /\ UNCHANGED <<users, subscriptions, usage_tracking, heldToken, reqs, hookResp, started, regs>>

\* ---------------------------------------------------------------- webhook
StripeStatuses == {"active", "trialing"}
PriceIds == {StripePriceId(p) : p \in Plans \ {"free"}} \cup {"price_unknown"}

\* the notifications the billing provider delivers: their signature verifies
VerifiedEvents ==
  {[type |-> t, sigOk |-> TRUE, customer |-> CustomerOf(u), price |-> p,
    status |-> st, sub |-> SubIdOf(u)] :
      t \in {"customer.subscription.created", "customer.subscription.updated"},
      u \in Users, p \in PriceIds, st \in StripeStatuses}
  \cup {[type |-> "customer.subscription.deleted", sigOk |-> TRUE, customer |-> Null,
         price |-> Null, status |-> Null, sub |-> sid] : sid \in SubIds}
  \cup {[type |-> t, sigOk |-> TRUE, customer |-> Null, price |-> Null,
         status |-> Null, sub |-> sid] :
          t \in {"invoice.payment_succeeded", "invoice.payment_failed"},
          sid \in SubIds \cup {Null}}
  \cup {[type |-> "other", sigOk |-> TRUE, customer |-> Null, price |-> Null,
         status |-> Null, sub |-> Null]}

\* the same bodies posted with a signature that does not verify
ForgedEvents ==
  {[ev EXCEPT !.sigOk = FALSE] :
     ev \in {v \in VerifiedEvents : v.customer = Null}}

Events == VerifiedEvents \cup ForgedEvents

\* Database.updateSubscription: the table after the update of the user's row
SubsAfterUpdate(u, plan, status, sid, period) ==
  (subscriptions \ SubRows(u)) \cup
    {[user_id |-> u, plan |-> plan, status |-> status,
      stripe_subscription_id |-> sid, period |-> period]}

Outcome(subs, usage, status) == [subs |-> subs, usage |-> usage, status |-> status]

\* case 'customer.subscription.created' / 'customer.subscription.updated'
onSubscriptionUpdated(ev) ==
  IF ~HasSingle(UsersByEmail(ev.customer))
  THEN Outcome(subscriptions, usage_tracking, 200)
  ELSE LET u == TheRow(UsersByEmail(ev.customer)).id
           plan == getPlanByPriceId(ev.price)
       IN IF plan = Null THEN Outcome(subscriptions, usage_tracking, 200)
          ELSE IF ~HasSingle(SubRows(u)) THEN Outcome(subscriptions, usage_tracking, 400)
          ELSE IF getOrCreateUsageTracking(u, getCurrentMonth).request_limit
                    # getRequestLimitForPlan(plan)
               \* Database.updateUsageTracking is not defined: the call throws
               THEN Outcome(SubsAfterUpdate(u, plan, ev.status, ev.sub, "set"),
                            UsageAfterGetOrCreate(u, getCurrentMonth), 400)
               ELSE Outcome(SubsAfterUpdate(u, plan, ev.status, ev.sub, "set"),
                            UsageAfterGetOrCreate(u, getCurrentMonth), 200)

onSubscriptionDeleted_resetsUsage(ev) ==
  IF ~HasSingle(SubRowsByStripeId(ev.sub))
  THEN Outcome(subscriptions, usage_tracking, 400)
  ELSE LET u == TheRow(SubRowsByStripeId(ev.sub)).user_id
       IN Outcome(SubsAfterUpdate(u, "free", "cancelled", Null, Null),
                  {IF t.user_id = u THEN [t EXCEPT !.requests_used = 0] ELSE t :
                     t \in usage_tracking},
                  200)

onSubscriptionDeleted_countsDelivery(ev) ==
  IF \A t \in subscriptions : t.user_id \notin {u \in Users : SubIdOf(u) = ev.sub}
  THEN Outcome(subscriptions, usage_tracking, 400)
  ELSE LET u == CHOOSE u \in Users : SubIdOf(u) = ev.sub
       IN Outcome(SubsAfterUpdate(u, "free", "cancelled", Null, Null),
                  {IF t.user_id = u THEN IncrementedRow(t) ELSE t : t \in usage_tracking},
                  200)

onSubscriptionDeleted_rewritesLimit(ev) ==
  IF ~HasSingle(SubRowsByStripeId(ev.sub))
  THEN Outcome(subscriptions, usage_tracking, 400)
  ELSE LET u == TheRow(SubRowsByStripeId(ev.sub)).user_id
       IN Outcome(SubsAfterUpdate(u, "free", "cancelled", Null, Null),
                  {IF t.user_id = u /\ t.month = getCurrentMonth
                   THEN [t EXCEPT !.request_limit = getRequestLimitForPlan("free")]
                   ELSE t : t \in usage_tracking},
                  200)

\* case 'customer.subscription.deleted'
onSubscriptionDeleted(ev) ==
  IF ~HasSingle(SubRowsByStripeId(ev.sub))
  THEN Outcome(subscriptions, usage_tracking, 400)
  ELSE LET u == TheRow(SubRowsByStripeId(ev.sub)).user_id
       IN IF ~HasSingle(SubRows(u)) THEN Outcome(subscriptions, usage_tracking, 400)
          ELSE Outcome(SubsAfterUpdate(u, "free", "cancelled", Null, Null),
                       IF UsageRows(u, getCurrentMonth) # {} THEN usage_tracking
                       ELSE usage_tracking \cup
                              {[user_id |-> u, month |-> getCurrentMonth,
                                requests_used |-> 0,
                                request_limit |-> getRequestLimitForPlan("free")]},
                       200)

\* case 'invoice.payment_succeeded'
onPaymentSucceeded(ev) ==
  IF ev.sub = Null THEN Outcome(subscriptions, usage_tracking, 200)
  ELSE IF ~HasSingle(SubRowsByStripeId(ev.sub))
  THEN Outcome(subscriptions, usage_tracking, 400)
  ELSE LET u == TheRow(SubRowsByStripeId(ev.sub)).user_id
       IN IF ~HasSingle(UsageRows(u, getCurrentMonth))
          THEN Outcome(subscriptions, usage_tracking, 400)
          ELSE Outcome(subscriptions, UsageAfterReset(u, getCurrentMonth), 200)

onPaymentFailed_downgrades(ev) ==
  IF ev.sub = Null THEN Outcome(subscriptions, usage_tracking, 200)
  ELSE IF ~HasSingle(SubRowsByStripeId(ev.sub))
  THEN Outcome(subscriptions, usage_tracking, 400)
  ELSE LET s == TheRow(SubRowsByStripeId(ev.sub))
       IN Outcome(SubsAfterUpdate(s.user_id, "free", "past_due",
                                  s.stripe_subscription_id, s.period),
                  usage_tracking, 200)

\* case 'invoice.payment_failed'
onPaymentFailed(ev) ==
  IF ev.sub = Null THEN Outcome(subscriptions, usage_tracking, 200)
  ELSE IF ~HasSingle(SubRowsByStripeId(ev.sub))
  THEN Outcome(subscriptions, usage_tracking, 400)
  ELSE LET s == TheRow(SubRowsByStripeId(ev.sub))
       IN IF ~HasSingle(SubRows(s.user_id))
          THEN Outcome(subscriptions, usage_tracking, 400)
          ELSE Outcome(SubsAfterUpdate(s.user_id, TheRow(SubRows(s.user_id)).plan,
                                       "past_due",
                                       TheRow(SubRows(s.user_id)).stripe_subscription_id,
                                       TheRow(SubRows(s.user_id)).period),
                       usage_tracking, 200)

\* switch (event.type)
switchEventType(ev) ==
  CASE ev.type \in {"customer.subscription.created", "customer.subscription.updated"} ->
         onSubscriptionUpdated(ev)
    [] ev.type = "customer.subscription.deleted" -> onSubscriptionDeleted(ev)
    [] ev.type = "invoice.payment_succeeded" -> onPaymentSucceeded(ev)
    [] ev.type = "invoice.payment_failed" -> onPaymentFailed(ev)
    [] OTHER -> Outcome(subscriptions, usage_tracking, 200)

webhookOutcome_unverified(ev) == switchEventType(ev)

\* router.post('/webhook'): what the handler leaves in the store and answers;
\* StripeService.handleWebhook throws before the switch when the signature is bad
webhookOutcome(ev) ==
  IF ~ev.sigOk THEN Outcome(subscriptions, usage_tracking, 400)
  ELSE switchEventType(ev)

\* POST /subscriptions/webhook
Webhook(ev) ==
  /\ EventLoopFree
  /\ subscriptions' = webhookOutcome(ev).subs
  /\ usage_tracking' = webhookOutcome(ev).usage
  /\ hookResp' = [status |-> webhookOutcome(ev).status, verified |-> ev.sigOk]
  /\ UNCHANGED <<users, month, heldToken, reqs, started, regs>>

\* the provider has the webhook's answer
Acknowledge ==
  /\ hookResp # NoHook
  /\ hookResp' = NoHook
  /\ UNCHANGED <<users, subscriptions, usage_tracking, month, heldToken, reqs, started, regs>>

\* ---------------------------------------------------------------- specification
\* an entitlement a user can hold when the server starts: plan, requests used
\* and whether the user has a usage row for the month yet
Seeds ==
  {[plan |-> "free", used |-> FreeLimit - 1, row |-> TRUE],
   [plan |-> "basic", used |-> BasicLimit - 1, row |-> TRUE],
   [plan |-> "pro", used |-> 0, row |-> TRUE],
   [plan |-> "pro_yearly", used |-> 0, row |-> TRUE],
   [plan |-> "pro", used |-> 0, row |-> FALSE]}

Paid(plan) == plan # "free"

SeedUserRow(u, seed) ==
  [id |-> u, email |-> Email(u),
   stripe_customer_id |-> IF Paid(seed.plan) THEN CustomerOf(u) ELSE Null]
SeedSubRow(u, seed) ==
  [user_id |-> u, plan |-> seed.plan, status |-> "active",
   stripe_subscription_id |-> IF Paid(seed.plan) THEN SubIdOf(u) ELSE Null,
   period |-> IF Paid(seed.plan) THEN "set" ELSE Null]
SeedUsageRow(u, seed) ==
  [user_id |-> u, month |-> 1, requests_used |-> seed.used,
   request_limit |-> getRequestLimitForPlan(seed.plan)]

Init ==
  /\ \E present \in SUBSET SeedUsers : \E seed \in [present -> Seeds] :
       /\ users = {SeedUserRow(u, seed[u]) : u \in present}
       /\ subscriptions = {SeedSubRow(u, seed[u]) : u \in present}
       /\ usage_tracking = {SeedUsageRow(u, seed[u]) : u \in {p \in present : seed[p].row}}
  /\ month = 1
  /\ heldToken = [u \in Users |-> IF UserRows(u) # {} THEN StoredState(u) ELSE NoUser]
  /\ reqs = [r \in ReqIds |-> Idle]
  /\ hookResp = NoHook
  /\ started = 0
  /\ regs = [k \in RegIds |-> NoReg]

\* the request pipeline, for the requests in the slots R
Serving(R) ==
  \/ \E r \in R, route \in Routes : StartRequest(r, route)
  \/ \E r \in R, cred \in Credentials, u \in Users : AuthenticateToken(r, cred, u)
  \/ \E r \in R : InsertUsageRow(r)
  \/ \E r \in R : RequirePlan(r)
  \/ \E r \in R : CheckSubscriptionLimits(r)
  \/ \E r \in R, bodyOk \in BOOLEAN : ValidateRequest(r, bodyOk)
  \/ \E r \in R, fileOk \in BOOLEAN : Upload(r, fileOk)
  \/ \E r \in R, db \in {"ok", "error"} : IncrementUsage(r, db)
  \/ \E r \in R, outcome \in {"ok", "nofile", "error"} : Handler(r, outcome)
  \/ \E r \in R : Deliver(r)

\* registration, login, the billing provider and the calendar
Environment ==
  \/ \E u \in Users : Register(u)
  \/ \E u \in Users : Login(u)
  \/ \E u \in Users, planId \in PlanIds : CreateCheckoutSession(u, planId)
  \/ \E u \in Users : CreatePortalSession(u)
  \/ \E u \in Users : GetStatus(u)
  \/ \E ev \in Events : Webhook(ev)
  \/ Acknowledge
  \/ AdvanceMonth

\* one request in flight at a time, interleaved with the environment at its awaits
Next == Serving({1}) \/ Environment

Spec == Init /\ [][Next]_vars

\* concurrent requests on a counted route: every slot can hold a request in
\* flight, interleaved at the awaits with logins, notifications and the calendar
ConcurrentRoutes == {"recipes/generate"}

NextConcurrent ==
  \/ \E r \in ReqIds, route \in ConcurrentRoutes : StartRequest(r, route)
  \/ \E r \in ReqIds, cred \in Credentials, u \in Users : AuthenticateToken(r, cred, u)
  \/ \E r \in ReqIds : InsertUsageRow(r)
  \/ \E r \in ReqIds : CheckSubscriptionLimits(r)
  \/ \E r \in ReqIds, bodyOk \in BOOLEAN : ValidateRequest(r, bodyOk)
  \/ \E r \in ReqIds, db \in {"ok", "error"} : IncrementUsage(r, db)
  \/ \E r \in ReqIds, outcome \in {"ok", "error"} : Handler(r, outcome)
  \/ \E r \in ReqIds : Deliver(r)
  \/ \E u \in Users : Register(u)
  \/ \E u \in Users : Login(u)
  \/ \E ev \in VerifiedEvents : Webhook(ev)
  \/ Acknowledge
  \/ AdvanceMonth

SpecConcurrent == Init /\ [][NextConcurrent]_vars

\* gated actions issued one after another: no billing notification, no month
\* change and no store failure in between
StartSequential(r, route) == Arrive(r, route) /\ UNCHANGED started

NextSequential ==
  \/ \E route \in Routes : StartSequential(1, route)
  \/ \E cred \in Credentials, u \in Users : AuthenticateToken(1, cred, u)
  \/ InsertUsageRow(1)
  \/ RequirePlan(1)
  \/ CheckSubscriptionLimits(1)
  \/ \E bodyOk \in BOOLEAN : ValidateRequest(1, bodyOk)
  \/ \E fileOk \in BOOLEAN : Upload(1, fileOk)
  \/ IncrementUsage(1, "ok")
  \/ \E outcome \in {"ok", "nofile", "error"} : Handler(1, outcome)
  \/ Deliver(1)
  \/ \E u \in Users : Register(u)
  \/ \E u \in Users : Login(u)

SpecSequential == Init /\ [][NextSequential]_vars

\* concurrent registrations, step by step, next to logins and one request on a
\* counted route
NextRegister ==
  \/ \E k \in RegIds, u \in Users : RegisterLookup(k, u)
  \/ \E k \in RegIds : RegisterCreateUser(k)
  \/ \E k \in RegIds, db \in {"ok", "error"} : RegisterCreateSubscription(k, db)
  \/ \E k \in RegIds : RegisterUsage(k)
  \/ \E k \in RegIds : RegisterDeliver(k)
  \/ \E u \in Users : Login(u)
  \/ \E route \in ConcurrentRoutes : StartRequest(1, route)
  \/ \E cred \in Credentials, u \in Users : AuthenticateToken(1, cred, u)
  \/ InsertUsageRow(1)
  \/ CheckSubscriptionLimits(1)
  \/ \E bodyOk \in BOOLEAN : ValidateRequest(1, bodyOk)
  \/ \E db \in {"ok", "error"} : IncrementUsage(1, db)
  \/ \E outcome \in {"ok", "error"} : Handler(1, outcome)
  \/ Deliver(1)

SpecRegister == Init /\ [][NextRegister]_vars

\* ---------------------------------------------------------------- properties
HasStage(route, mw) ==
  route # "none" /\ \E i \in DOMAIN Pipeline(route) : Pipeline(route)[i] = mw
StageIndex(route, mw) ==
  CHOOSE i \in DOMAIN Pipeline(route) : Pipeline(route)[i] = mw

\* the middleware mw has handled the request: it rejected it or passed it on
Decided(q, mw) ==
  /\ HasStage(q.route, mw)
  /\ \/ q.pos > StageIndex(q.route, mw)
     \/ q.pos = StageIndex(q.route, mw) /\ q.resp # NoResp

InactivePaid(s) == s.status # "active" /\ s.plan # "free"
OverQuota(s) == s.requestLimit # -1 /\ s.requestsUsed >= s.requestLimit

\* the current-month usage row of a user
CurrentRow(u) == TheRow(UsageRows(u, month))

\* C1: a request that reached checkSubscriptionLimits is rejected with 403
\* SUBSCRIPTION_REQUIRED exactly when the user's stored status is not active and
\* the stored plan is not free; a free plan is never rejected by the status check.
C1_StatusCheck ==
  \A r \in ReqIds :
    Decided(reqs[r], "checkSubscriptionLimits") =>
      /\ (reqs[r].resp = RespSubscriptionRequired) <=> InactivePaid(reqs[r].seen)
      /\ reqs[r].seen.plan = "free" => reqs[r].resp # RespSubscriptionRequired

C1_Witness ==
  \E r \in ReqIds :
    /\ Decided(reqs[r], "checkSubscriptionLimits")
    /\ reqs[r].seen.plan = "free"
    /\ reqs[r].seen.status = "cancelled"
    /\ reqs[r].pos > StageIndex(reqs[r].route, "checkSubscriptionLimits")

C2_CheckStep ==
  \A r \in ReqIds :
    (Cur(r) = "checkSubscriptionLimits" /\ reqs'[r] # reqs[r]) =>
      LET u == reqs[r].user.id
          row == CurrentRow(u)
      IN (row.request_limit # -1
          /\ ~(StatusOrActive(u) # "active" /\ PlanOrFree(u) # "free")) =>
           IF row.requests_used < row.request_limit
           THEN reqs'[r].resp = NoResp /\ reqs'[r].pos = reqs[r].pos + 1
           ELSE reqs'[r].resp = RespLimitExceeded

C2_IncrementStep ==
  \A r \in ReqIds :
    (Cur(r) = "incrementUsage" /\ reqs'[r] # reqs[r]
     /\ CurrentRow(reqs[r].user.id).request_limit # -1) =>
      /\ UsageRows(reqs[r].user.id, month)' =
           {[CurrentRow(reqs[r].user.id) EXCEPT
               !.requests_used = CurrentRow(reqs[r].user.id).requests_used + 1]}
      /\ reqs'[r].resp = NoResp
      /\ Pipeline(reqs[r].route)[reqs'[r].pos] = "handler"

C2_OnlyAdmission ==
  \A t \in usage_tracking : \A t2 \in usage_tracking' :
    (t2.user_id = t.user_id /\ t2.month = t.month
     /\ t2.requests_used # t.requests_used) =>
      /\ t2.requests_used = t.requests_used + 1
      /\ \E r \in ReqIds : Cur(r) = "incrementUsage" /\ reqs[r].user.id = t.user_id

C2_AdmittedCounted ==
  \A r \in ReqIds :
    (reqs[r].dispatched /\ HasStage(reqs[r].route, "checkSubscriptionLimits")
     /\ reqs[r].user.requestLimit # -1) => reqs[r].incr = "ok"

C2_WithinLimit ==
  \A t \in usage_tracking :
    t.request_limit # -1 => t.requests_used <= t.request_limit

C3_StatusBeforeQuota ==
  \A r \in ReqIds :
    (Decided(reqs[r], "checkSubscriptionLimits")
     /\ InactivePaid(reqs[r].seen) /\ OverQuota(reqs[r].seen)) =>
      reqs[r].resp = RespSubscriptionRequired

C3_Witness ==
  \E r \in ReqIds :
    /\ Decided(reqs[r], "checkSubscriptionLimits")
    /\ InactivePaid(reqs[r].seen)
    /\ OverQuota(reqs[r].seen)
    /\ reqs[r].resp = RespSubscriptionRequired

\* C4: on a plan-gated route a request whose stored plan is outside the route's
\* allow-set gets 403 PLAN_UPGRADE_REQUIRED whatever its status and usage, and
\* its handler is never run.
C4_PlanGate ==
  \A r \in ReqIds :
    (Decided(reqs[r], "requirePlan")
     /\ reqs[r].seen.plan \notin RequiredPlans(reqs[r].route)) =>
      /\ reqs[r].resp = RespPlanUpgrade
      /\ ~reqs[r].dispatched

\* a free user over quota calling /images/analyze
C4_Witness ==
  \E r \in ReqIds :
    /\ reqs[r].route = "images/analyze"
    /\ reqs[r].seen.plan = "free"
    /\ OverQuota(reqs[r].seen)
    /\ reqs[r].resp = RespPlanUpgrade

\* C5: no step increments requests_used of a usage row whose request_limit is -1,
\* whatever notifications, logins and month changes happen while a request is in
\* flight.
C5_UnlimitedNeverIncrements ==
  [][\A t \in usage_tracking : \A t2 \in usage_tracking' :
       (t.request_limit = -1 /\ t2.user_id = t.user_id /\ t2.month = t.month) =>
         t2.requests_used <= t.requests_used]_vars

\* C6: requests_used is raised for a request only after its handler was invoked.
C6_IncrementAfterDispatch ==
  \A r \in ReqIds : reqs[r].incr = "ok" => reqs[r].dispatched

\* C7: a failed usage increment is swallowed: the store is left as it was, the
\* request goes on to its handler, and its response is the handler's.
C7_FailureStep ==
  \A r \in ReqIds :
    (Cur(r) = "incrementUsage" /\ reqs'[r].incr = "error") =>
      /\ usage_tracking' = usage_tracking
      /\ reqs'[r].resp = NoResp
      /\ Pipeline(reqs[r].route)[reqs'[r].pos] = "handler"

C7_FailureResponse ==
  \A r \in ReqIds :
    (reqs[r].incr = "error" /\ reqs[r].resp # NoResp) =>
      reqs[r].resp.by = "handler" /\ reqs[r].dispatched

C7_IncrementFailureSwallowed ==
  [](C7_FailureResponse) /\ [][C7_FailureStep]_vars

C7_Witness ==
  \E r \in ReqIds :
    reqs[r].incr = "error" /\ reqs[r].resp = Resp(200, "", "handler")

BadCredentials == {"missing", "malformed", "badsig", "expired"}

ExpectedDecision(route, s) ==
  IF HasStage(route, "requirePlan") /\ s.plan \notin RequiredPlans(route)
  THEN "PLAN_UPGRADE_REQUIRED"
  ELSE IF InactivePaid(s) THEN "SUBSCRIPTION_REQUIRED"
  ELSE IF OverQuota(s) THEN "LIMIT_EXCEEDED"
  ELSE "admitted"

GateDecision(q) ==
  IF q.resp.by \in {"requirePlan", "checkSubscriptionLimits"} THEN q.resp.code
  ELSE "admitted"

C10_HandlerBehindGate ==
  \A r \in ReqIds :
    reqs[r].dispatched =>
      /\ reqs[r].cred = "valid"
      /\ reqs[r].user.id # "none"
      /\ ~InactivePaid(reqs[r].seen)
      /\ ~OverQuota(reqs[r].seen)

\* C11 as stated: in every reachable state every usage row has
\* requests_used <= request_limit unless request_limit = -1.
C11_WithinLimit ==
  \A t \in usage_tracking :
    t.request_limit # -1 => t.requests_used <= t.request_limit

C11_Bound ==
  \A t \in usage_tracking :
    t.request_limit # -1 => t.requests_used <= t.request_limit + (MaxReqs - 1)

C11_OvershootStep ==
  \A t \in usage_tracking : \A t2 \in usage_tracking' :
    (t2.user_id = t.user_id /\ t2.month = t.month /\ t2.request_limit # -1
     /\ t2.requests_used > t.requests_used
     /\ t2.requests_used > t2.request_limit) =>
      \E r \in ReqIds :
        /\ Cur(r) = "incrementUsage"
        /\ reqs[r].user.id = t.user_id
        /\ reqs'[r].incr = "ok"
        /\ \/ reqs[r].user.requestsUsed # t.requests_used
           \/ reqs[r].user.requestLimit # t.request_limit

\* C11 as amended: requests_used exceeds a finite request_limit only through an
\* increment whose quota check was decided on a value no longer stored (another
\* request of the user was in flight), and by at most one per further request in
\* flight.
C11_SoftLimit == [](C11_Bound) /\ [][C11_OvershootStep]_vars

C11_Witness ==
  \E t \in usage_tracking :
    t.request_limit # -1 /\ t.requests_used = t.request_limit + 1

\* a step in which the webhook handler answers a notification
WebhookAnswers == hookResp = NoHook /\ hookResp' # NoHook

\* C12: a notification whose signature fails verification is answered 400 and
\* changes no user, entitlement or usage row.
C12_ForgedRejected ==
  [][(WebhookAnswers /\ ~hookResp'.verified) =>
       /\ hookResp'.status = 400
       /\ users' = users
       /\ subscriptions' = subscriptions
       /\ usage_tracking' = usage_tracking]_vars

\* a forged notification was answered while a subscription it could name is stored
C12_Witness ==
  /\ hookResp.status = 400
  /\ ~hookResp.verified
  /\ \E s \in subscriptions : s.stripe_subscription_id \in SubIds

PaidPlans == Plans \ {"free"}

\* the verified created/updated notifications that carry the customer reference
\* stored on user u and the price of plan P
UpdatesFor(u, P) ==
  {ev \in VerifiedEvents :
     /\ ev.type \in {"customer.subscription.created", "customer.subscription.updated"}
     /\ HasSingle(UserRows(u))
     /\ TheRow(UserRows(u)).stripe_customer_id = ev.customer
     /\ ev.price = StripePriceId(P)}

\* C13: once a user's checkout has stored a customer reference, processing a
\* verified subscription-updated notification with that reference and the price
\* of paid plan P leaves the user's stored plan equal to P.
C13_RoundTrip ==
  [][\A u \in Users : \A P \in PaidPlans : \A ev \in UpdatesFor(u, P) :
       Webhook(ev) => PlanOrFree(u)' = P]_vars

\* C14: processing a verified created/updated notification for a user whose
\* current-month row has another request_limit than the new plan's sets that
\* row's request_limit to the new plan's limit and keeps its requests_used.
C14_LimitRewritten ==
  [][\A u \in Users : \A P \in PaidPlans : \A ev \in UpdatesFor(u, P) :
       (Webhook(ev) /\ HasSingle(UsageRows(u, month))
        /\ CurrentRow(u).request_limit # getRequestLimitForPlan(P)) =>
         UsageRows(u, month)' =
           {[CurrentRow(u) EXCEPT !.request_limit = getRequestLimitForPlan(P)]}]_vars

\* the verified notification of a given type for subscription reference sid
NotificationFor(type, sid) ==
  [type |-> type, sigOk |-> TRUE, customer |-> Null, price |-> Null,
   status |-> Null, sub |-> sid]

\* the user whose entitlement holds the subscription reference sid
HolderOf(sid) == TheRow(SubRowsByStripeId(sid)).user_id

\* C15: processing a verified customer.subscription.deleted for a reference held
\* by a user's entitlement makes that entitlement free / cancelled with the
\* reference and the period cleared, and keeps requests_used of all the user's rows.
C15_Deleted ==
  [][\A sid \in SubIds : \A u \in Users :
       (HasSingle(SubRowsByStripeId(sid)) /\ HolderOf(sid) = u
        /\ Webhook(NotificationFor("customer.subscription.deleted", sid))) =>
         /\ SubRows(u)' =
              {[user_id |-> u, plan |-> "free", status |-> "cancelled",
                stripe_subscription_id |-> Null, period |-> Null]}
         /\ \A t \in usage_tracking :
              t.user_id = u =>
                \E t2 \in usage_tracking' :
                  /\ t2.user_id = t.user_id /\ t2.month = t.month
                  /\ t2.requests_used = t.requests_used]_vars

\* a cancelled entitlement next to a usage row that kept its consumed requests
C15_Witness ==
  /\ hookResp = [status |-> 200, verified |-> TRUE]
  /\ \E s \in subscriptions :
       /\ s.plan = "free" /\ s.status = "cancelled"
       /\ s.stripe_subscription_id = Null /\ s.period = Null
       /\ \E t \in usage_tracking : t.user_id = s.user_id /\ t.requests_used > 0

\* C16: delivering a verified customer.subscription.deleted again leaves the
\* entitlement and usage tables as the first delivery left them, the entitlement
\* free / cancelled.
C16_RedeliveryIdempotent ==
  [][\A sid \in SubIds : \A u \in Users :
       (HasSingle(SubRowsByStripeId(sid)) /\ HolderOf(sid) = u
        /\ Webhook(NotificationFor("customer.subscription.deleted", sid))) =>
         /\ webhookOutcome(NotificationFor("customer.subscription.deleted", sid))'.subs
              = subscriptions'
         /\ webhookOutcome(NotificationFor("customer.subscription.deleted", sid))'.usage
              = usage_tracking'
         /\ \A s \in SubRows(u)' : s.plan = "free" /\ s.status = "cancelled"]_vars

\* a verified notification answered after the deletion, the entitlement still
\* free / cancelled: the redelivery finds no entitlement with the reference
C16_Witness ==
  /\ hookResp = [status |-> 400, verified |-> TRUE]
  /\ \E s \in subscriptions :
       /\ s.plan = "free" /\ s.status = "cancelled"
       /\ s.stripe_subscription_id = Null

C17_ResetStep ==
  \A sid \in SubIds : \A u \in Users :
    (HasSingle(SubRowsByStripeId(sid)) /\ HolderOf(sid) = u
     /\ Webhook(NotificationFor("invoice.payment_succeeded", sid))
     /\ HasSingle(UsageRows(u, month))) =>
      /\ UsageRows(u, month)' = {[CurrentRow(u) EXCEPT !.requests_used = 0]}
      /\ hookResp'.status = 200

C17_AdmittedAfterReset ==
  \A r \in ReqIds :
    (Decided(reqs[r], "checkSubscriptionLimits") /\ ~InactivePaid(reqs[r].seen)
     /\ reqs[r].seen.requestsUsed = 0 /\ reqs[r].seen.requestLimit = BasicLimit) =>
      reqs[r].resp.by # "checkSubscriptionLimits"

\* C17: processing a verified invoice.payment_succeeded for a user's subscription
\* sets the user's current-month requests_used to 0 and keeps request_limit, and
\* a request that then finds 0 of 50 used passes the quota check.
C17_PaymentSucceeded == [](C17_AdmittedAfterReset) /\ [][C17_ResetStep]_vars

\* a basic user's request in the month of the reset finds 0 of 50 used and is dispatched
C17_Witness ==
  /\ month = 1
  /\ \E r \in ReqIds :
       /\ reqs[r].user.id \in SeedUsers
       /\ reqs[r].seen.plan = "basic"
       /\ reqs[r].seen.requestsUsed = 0
       /\ reqs[r].seen.requestLimit = BasicLimit
       /\ reqs[r].route = "recipes/generate"
       /\ reqs[r].dispatched

C18_FailureStep ==
  \A sid \in SubIds : \A u \in Users :
    (HasSingle(SubRowsByStripeId(sid)) /\ HolderOf(sid) = u
     /\ Webhook(NotificationFor("invoice.payment_failed", sid))) =>
      /\ SubRows(u)' = {[TheRow(SubRows(u)) EXCEPT !.status = "past_due"]}
      /\ usage_tracking' = usage_tracking

C18_RejectedWhilePastDue ==
  \A r \in ReqIds :
    (reqs[r].route = "recipes/generate"
     /\ Decided(reqs[r], "checkSubscriptionLimits")
     /\ reqs[r].seen.plan = "basic" /\ reqs[r].seen.status = "past_due") =>
      reqs[r].resp = RespSubscriptionRequired /\ ~reqs[r].dispatched

\* C18: processing a verified invoice.payment_failed for a user's subscription
\* sets the entitlement's status to past_due and keeps plan, requests_used and
\* request_limit; a /recipes/generate request of a basic user found past_due is
\* rejected with 403 SUBSCRIPTION_REQUIRED, under quota or not.
C18_PaymentFailed == [](C18_RejectedWhilePastDue) /\ [][C18_FailureStep]_vars

C18_Witness ==
  \E r \in ReqIds :
    /\ reqs[r].route = "recipes/generate"
    /\ reqs[r].seen.plan = "basic"
    /\ reqs[r].seen.status = "past_due"
    /\ reqs[r].seen.requestsUsed < reqs[r].seen.requestLimit
    /\ reqs[r].resp = RespSubscriptionRequired

\* C19: a notification whose signature verified is answered {received: true},
\* never with an error status.
C19_VerifiedAcknowledged ==
  hookResp.verified => hookResp.status = 200

\* C20: an existing user's entitlement row changes only in a step that processes
\* a verified notification; a row is added only by that user's registration.
C20_EntitlementFrame ==
  [][/\ \A s \in subscriptions :
          s \notin subscriptions' => (WebhookAnswers /\ hookResp'.verified)
     /\ \A s \in subscriptions' :
          s \notin subscriptions =>
            \/ WebhookAnswers /\ hookResp'.verified
            \/ SubRows(s.user_id) = {} /\ UserRows(s.user_id) = {}]_vars

\* a user whose checkout stored a customer reference and whose entitlement is
\* still the one written at registration
C20_Witness ==
  \E u \in Users :
    /\ \E x \in users : x.id = u /\ x.stripe_customer_id = CustomerOf(u)
    /\ SubRows(u) = {[user_id |-> u, plan |-> "free", status |-> "active",
                      stripe_subscription_id |-> Null, period |-> Null]}

\* C21: nothing serialises a user's requests: an increment adds 1 to the stored
\* requests_used whatever the limit and whatever other requests of the user are
\* in flight, so two requests that passed the quota check on the same value take
\* requests_used past a finite request_limit.
C21_IncrementUnconditional ==
  [][\A r \in ReqIds :
       (Cur(r) = "incrementUsage" /\ reqs'[r].incr = "ok") =>
         \A u \in Users :
           reqs[r].user.id = u =>
             UsageRows(u, month)' =
               {[CurrentRow(u) EXCEPT !.requests_used = @ + 1]}]_vars

\* two requests of one user, admitted on the same requests_used, have both
\* incremented and the row is past its finite limit
C21_Witness ==
  \E r1 \in ReqIds : \E r2 \in ReqIds \ {r1} :
    /\ reqs[r1].user.id = reqs[r2].user.id
    /\ reqs[r1].user.requestsUsed = reqs[r2].user.requestsUsed
    /\ reqs[r1].incr = "ok" /\ reqs[r2].incr = "ok"
    /\ \E t \in usage_tracking :
         /\ t.user_id = reqs[r1].user.id
         /\ t.request_limit # -1
         /\ t.requests_used > t.request_limit

\* the fixed plan -> request_limit table; a user without entitlement row counts as free
LimitTable(plan) ==
  CASE plan = "free" -> 5
    [] plan = "basic" -> 50
    [] plan = "pro" -> -1
    [] plan = "pro_yearly" -> -1

C22_OnePerUserMonth ==
  \A t1 \in usage_tracking : \A t2 \in usage_tracking :
    (t1.user_id = t2.user_id /\ t1.month = t2.month) => t1 = t2

C22_CreationStep ==
  \A t2 \in usage_tracking' :
    (\A t \in usage_tracking : t.user_id # t2.user_id \/ t.month # t2.month) =>
      /\ t2.requests_used = 0
      /\ \A u \in Users : t2.user_id = u => t2.request_limit = LimitTable(PlanOrFree(u)')

C22_RowsKept ==
  \A t \in usage_tracking :
    \E t2 \in usage_tracking' : t2.user_id = t.user_id /\ t2.month = t.month

C25_AtMostOne ==
  \A s1 \in subscriptions : \A s2 \in subscriptions :
    s1.user_id = s2.user_id => s1 = s2

C25_RegisteredStep ==
  \A k \in RegIds : \A u \in Users :
    (regs[k].id = u /\ regs[k].status = 0 /\ regs'[k].status = 201) =>
      SubRows(u)' = {[user_id |-> u, plan |-> "free", status |-> "active",
                      stripe_subscription_id |-> Null, period |-> Null]}

C25_DefaultStep ==
  \A r \in ReqIds : \A u \in Users :
    (Cur(r) = "authenticateToken" /\ AuthenticateToken(r, "valid", u)
     /\ SubRows(u) = {}) =>
      /\ reqs'[r].user.plan = "free" /\ reqs'[r].user.status = "active"
      /\ reqs'[r].user.requestLimit = FreeLimit

C25_DefaultGate ==
  \A r \in ReqIds :
    (Decided(reqs[r], "checkSubscriptionLimits") /\ SubRows(reqs[r].user.id) = {}
     /\ reqs[r].user.requestsUsed < FreeLimit) =>
      reqs[r].resp.by # "checkSubscriptionLimits"

\* C25: a registration answered 201 leaves the new user with exactly one
\* entitlement row, free / active; no user ever has more than one entitlement
\* row; a request of a user without entitlement row is gated as free / active.
C25_OneEntitlement ==
  /\ [](C25_AtMostOne /\ C25_DefaultGate)
  /\ [][C25_RegisteredStep /\ C25_DefaultStep]_vars

\* a registration failed after its user row was written, the user logged in and
\* the request was gated as free / active and dispatched; another registration
\* was answered 201 and its user holds the one free / active row
C25_Witness ==
  \E r \in ReqIds :
    /\ reqs[r].dispatched
    /\ UserRows(reqs[r].user.id) # {}
    /\ SubRows(reqs[r].user.id) = {}
    /\ reqs[r].user.plan = "free" /\ reqs[r].user.status = "active"
    /\ \E k \in RegIds :
         /\ regs[k].status = 201
         /\ SubRows(regs[k].id) =
              {[user_id |-> regs[k].id, plan |-> "free", status |-> "active",
                stripe_subscription_id |-> Null, period |-> Null]}

C26_UniqueEmail ==
  \A x \in users : \A y \in users : x.email = y.email => x = y

C26_RejectedStep ==
  \A k \in RegIds : \A u \in Users :
    /\ (RegisterLookup(k, u) /\ UsersByEmail(Email(u)) # {}) =>
         /\ regs'[k].status = 400
         /\ users' = users /\ subscriptions' = subscriptions
         /\ usage_tracking' = usage_tracking
    /\ (regs[k].who = u /\ RegisterCreateUser(k) /\ UsersByEmail(Email(u)) # {}) =>
         /\ regs'[k].status = 500
         /\ users' = users /\ subscriptions' = subscriptions
         /\ usage_tracking' = usage_tracking

C27_FreeLimitAfterDeletion ==
  [][\A sid \in SubIds : \A u \in Users :
       (HasSingle(SubRowsByStripeId(sid)) /\ HolderOf(sid) = u
        /\ Webhook(NotificationFor("customer.subscription.deleted", sid))) =>
         /\ UsageRows(u, month)' # {}
         /\ \A t \in UsageRows(u, month)' : t.request_limit = FreeLimit]_vars

\* C28: processing a verified invoice.payment_succeeded for a user's
\* subscription leaves the user in a state the status check admits, also after
\* an invoice.payment_failed had made the entitlement past_due.
C28_RecoveredAfterPayment ==
  [][\A sid \in SubIds : \A u \in Users :
       (HasSingle(SubRowsByStripeId(sid)) /\ HolderOf(sid) = u
        /\ Webhook(NotificationFor("invoice.payment_succeeded", sid))) =>
         ~(StatusOrActive(u)' # "active" /\ PlanOrFree(u)' # "free")]_vars

\* the middleware that can reject a gated request before its handler
RejectingStages ==
  {"authenticateToken", "requirePlan", "checkSubscriptionLimits", "validateRequest"}

C29_RejectionStep ==
  \A r \in ReqIds :
    (reqs[r].resp = NoResp /\ reqs'[r].resp.by \in RejectingStages) =>
      usage_tracking' = usage_tracking

C29_RejectedNeverCounted ==
  \A r \in ReqIds :
    reqs[r].resp.by \in RejectingStages => reqs[r].incr = "none"

C29_CountedStep ==
  \A r \in ReqIds :
    reqs'[r].incr = "ok" /\ reqs[r].incr # "ok" =>
      /\ Cur(r) = "incrementUsage"
      /\ \A mw \in RejectingStages :
           HasStage(reqs[r].route, mw) =>
             reqs[r].pos > StageIndex(reqs[r].route, mw)

\* C29: a request answered by authenticateToken, requirePlan,
\* checkSubscriptionLimits or validateRequest has changed no usage row, in the
\* rejecting step or before; a request increments requests_used only at
\* incrementUsage, behind every one of those checks of its route.
C29_RejectedUncounted ==
  [](C29_RejectedNeverCounted) /\ [][C29_RejectionStep /\ C29_CountedStep]_vars

\* a request of a user with consumed requests was rejected by the body
\* validation and the user's row holds what authenticateToken had read
C29_Witness ==
  \E r \in ReqIds :
    /\ reqs[r].resp = RespValidation
    /\ HasStage(reqs[r].route, "incrementUsage")
    /\ reqs[r].user.requestsUsed > 0
    /\ HasSingle(UsageRows(reqs[r].user.id, month))
    /\ CurrentRow(reqs[r].user.id).requests_used = reqs[r].user.requestsUsed

\* C30: a request that carried the valid token of an existing user is never
\* answered 'Invalid or expired token', also when another request of the user
\* creates the month's usage row first.
C30_ValidTokenPasses ==
  \A r \in ReqIds : reqs[r].cred = "valid" => reqs[r].resp # RespBadToken

====
